---- MODULE Spec2Model ----
(***************************************************************************)
(* A model of crevdem: the crevasse finder (finder.py) and the sea-level   *)
(* estimator (preprocess.py).                                              *)
(*                                                                         *)
(* A raster (DataArray.values) is a sequence of rows, each a sequence of   *)
(* pixel values.  A pixel value is an integer or NaN (nodata).  A          *)
(* DataArray is a record [values, res]: the pixel grid and the ground      *)
(* resolution its geometry carries.  An Optional value is None (<<>>) or   *)
(* Some(v) (<<v>>).                                                        *)
(*                                                                         *)
(* Units.  Elevations of the sea-level estimator are integers in units of  *)
(* 0.025 m (2.1 m = 84, 0.25 m = 10, 15.125 m = 605).  The area threshold  *)
(* candidate_area_thresh_km2 * 1e6 is an integer number of m^2.            *)
(* Elevations of the finder are integers in metres.                        *)
(***************************************************************************)
EXTENDS Integers, Sequences, FiniteSets

VARIABLES
    pc,     \* position of the call: "call", a stage name, "done" or "error"
    args,   \* the arguments of the call (a record)
    loc,    \* the locals of the running function (a record)
    ret,    \* the returned value
    lib     \* what the numeric libraries do where their documentation leaves it
            \* open, and the values they compute (fixed for a run)

vars == <<pc, args, loc, ret, lib>>

(***************************************************************************)
(* Values                                                                  *)
(***************************************************************************)

\* nodata: not-a-number, as load.py produces it with dem.where(dem > -9999.0)
NaN == 99999999

None == <<>>
Some(v) == <<v>>

IsNaN(a) == a = NaN

\* IEEE comparisons: any comparison with NaN is False
Lt(a, b) == ~IsNaN(a) /\ ~IsNaN(b) /\ a < b
Ge(a, b) == ~IsNaN(a) /\ ~IsNaN(b) /\ a >= b
GtMutant(a, b) == Ge(a, b)
Gt(a, b) == ~IsNaN(a) /\ ~IsNaN(b) /\ a > b

\* IEEE arithmetic on finite values and NaN
Add(a, b) == IF IsNaN(a) \/ IsNaN(b) THEN NaN ELSE a + b
Sub(a, b) == IF IsNaN(a) \/ IsNaN(b) THEN NaN ELSE a - b
Mul(a, b) == IF IsNaN(a) \/ IsNaN(b) THEN NaN ELSE a * b

\* int(x) of a quotient n/d with d > 0: truncation toward zero
IntDiv(n, d) == IF n >= 0 THEN n \div d ELSE -((-n) \div d)

\* numpy.round of a quotient n/d with d > 0: to nearest, halves to even
NpRound(n, d) ==
    LET q == n \div d
        r == n % d
    IN  IF 2 * r < d THEN q
        ELSE IF 2 * r > d THEN q + 1
        ELSE IF q % 2 = 0 THEN q ELSE q + 1

(***************************************************************************)
(* Rasters                                                                 *)
(***************************************************************************)

Rows(a) == Len(a)
Cols(a) == IF Len(a) = 0 THEN 0 ELSE Len(a[1])
Shape(a) == <<Rows(a), Cols(a)>>
Pixels(a) == (1..Rows(a)) \X (1..Cols(a))

\* all rasters of h rows and w columns over the values V
RastersOfShape(h, w, V) == [1..h -> [1..w -> V]]

\* all non-empty rasters of at most n pixels over the values V
Rasters(n, V) ==
    UNION {RastersOfShape(s[1], s[2], V) :
             s \in {t \in (1..n) \X (1..n) : t[1] * t[2] <= n}}

\* ndarray.ravel(): the pixels in row-major order
Ravel(a) ==
    [k \in 1..(Rows(a) * Cols(a)) |->
        a[((k - 1) \div Cols(a)) + 1][((k - 1) % Cols(a)) + 1]]

\* The behaviour of cv2 and rasterio that the code relies on without fixing it:
\*   nan_minmax  a max or min over a window that holds NaN skips the NaN, or
\*               yields NaN (cv2 morphology compares with the instruction the
\*               build uses);
\*   nan_cast    a NaN cast to uint8 is 0 or is not 0 (the cast is undefined);
\*   blur        where GaussianBlur computes a weighted mean of the values of
\*               a window, the mean is the least or the greatest of them: the
\*               two ends of the range a mean lies in;
\*   fill        likewise for the mean fillnodata computes of the valid pixels
\*               around a hole ("lo", "hi"); "nan": a valid pixel that holds NaN
\*               enters the mean; "returned": the rasterio at hand returns the
\*               filled image and leaves the array it was given as it is.
Libs ==
    [nan_minmax : {"skip", "propagate"}, nan_cast : {"zero", "nonzero"},
     blur : {"lo", "hi"}, fill : {"lo", "hi", "nan", "returned"}]

LibDefault ==
    [nan_minmax |-> "skip", nan_cast |-> "zero", blur |-> "lo", fill |-> "lo"]

\* the libraries as far as each stage depends on them
BlurLibs == {l \in Libs : l.nan_minmax = "skip" /\ l.nan_cast = "zero" /\ l.fill = "lo"}
MorphLibs == {l \in Libs : l.blur = "lo" /\ l.nan_cast = "zero" /\ l.fill = "lo"}
FillLibs == {l \in Libs : l.blur = "lo" /\ l.nan_minmax = "skip"}

\* _utils.get_resolution: the resolution of the DataArray's geometry
get_resolution(d) == d.res

(***************************************************************************)
(* preprocess.get_sea_level                                                *)
(***************************************************************************)

\* arange(-15.125, 15.375, 0.25) and the + 0.125 of the bin centres
HistStart == -605
HistStop == 615
HistStep == 10
HalfBin == 5

\* numpy.arange(start, stop, step) for step > 0
ARange(start, stop, step) ==
    [k \in 1..((stop - start + step - 1) \div step) |-> start + (k - 1) * step]

bin_edges == ARange(HistStart, HistStop, HistStep)

bin_centresMutant == [k \in 1..(Len(bin_edges) - 1) |-> bin_edges[k] + HistStep]

\* bin_edges[:-1] + 0.125
bin_centres == [k \in 1..(Len(bin_edges) - 1) |-> bin_edges[k] + HalfBin]

\* numpy.histogram(values, bins=edges): bin k holds edges[k] <= v < edges[k+1],
\* the last bin holds its right edge too; values outside the edges are dropped
Histogram(values, edges) ==
    [k \in 1..(Len(edges) - 1) |->
        Cardinality({i \in 1..Len(values) :
            /\ values[i] >= edges[k]
            /\ \/ values[i] < edges[k + 1]
               \/ k = Len(edges) - 1 /\ values[i] = edges[k + 1]})]

ArgMaxMutant(h) ==
    LET top == CHOOSE m \in {h[k] : k \in 1..Len(h)} :
                   \A k \in 1..Len(h) : h[k] <= m
        at == {k \in 1..Len(h) : h[k] = top}
    IN  CHOOSE k \in at : \A j \in at : k >= j

\* numpy.argmax: the first index that holds the maximum
ArgMax(h) ==
    LET top == CHOOSE m \in {h[k] : k \in 1..Len(h)} :
                   \A k \in 1..Len(h) : h[k] <= m
        at == {k \in 1..Len(h) : h[k] = top}
    IN  CHOOSE k \in at : \A j \in at : k <= j

\* values[values < thresh]: boolean indexing keeps the elements below thresh,
\* in order (a NaN is not below anything)
RECURSIVE SelectBelow(_, _)
SelectBelow(s, thresh) ==
    IF s = <<>> THEN <<>>
    ELSE IF Lt(s[1], thresh) THEN <<s[1]>> \o SelectBelow(Tail(s), thresh)
    ELSE SelectBelow(Tail(s), thresh)

\* near_sealevel_values = ravel[ravel < candidate_height_thresh_m]
NearSeaLevelValues(d, height_thresh) == SelectBelow(Ravel(d.values), height_thresh)

\* thresh_px_n = int(candidate_area_thresh_km2 * 1e6 / (resolution * 2))
thresh_px_n(area_m2, resolution) == IntDiv(area_m2, resolution * 2)

\* the resolution a function works with: the argument, or the geometry's
Resolved(d, resolution) ==
    IF resolution = None THEN get_resolution(d) ELSE resolution[1]

get_sea_level(d, resolution, height_thresh, area_m2) ==
    LET res == Resolved(d, resolution)
        near == NearSeaLevelValues(d, height_thresh)
    IN  IF Len(near) < thresh_px_n(area_m2, res)
        THEN None
        ELSE Some(bin_centres[ArgMax(Histogram(near, bin_edges))])

\* bounds of the sea-level inputs
SeaMaxPix == 3
SeaMaxRes == 3

\* -15.25 m, 2.1 m, 2.25 m and 100 m, and nodata
SeaVals == {NaN, -610, 84, 90, 4000}
\* 2.5 m, 10 m (the default) and 110 m
SeaHeightThresh == {100, 400, 4400}
SeaAreas == {0, 4, 12}

InitSea ==
    /\ pc = "call"
    /\ \E v \in Rasters(SeaMaxPix, SeaVals), g \in 1..SeaMaxRes,
          r \in {None} \cup {Some(x) : x \in 1..SeaMaxRes},
          h \in SeaHeightThresh, a \in SeaAreas :
         args = [dem |-> [values |-> v, res |-> g], resolution |-> r,
                 candidate_height_thresh_m |-> h,
                 candidate_area_thresh_m2 |-> a]
    /\ loc = [fn |-> "get_sea_level"]
    /\ ret = None
    /\ lib = LibDefault

CallGetSeaLevel ==
    /\ pc = "call"
    /\ loc.fn = "get_sea_level"
    /\ ret' = get_sea_level(args.dem, args.resolution,
                            args.candidate_height_thresh_m,
                            args.candidate_area_thresh_m2)
    /\ pc' = "done"
    /\ UNCHANGED <<args, loc, lib>>

NextSea == CallGetSeaLevel

SpecSea == InitSea /\ [][NextSea]_vars

(***************************************************************************)
(* Claims about get_sea_level                                              *)
(***************************************************************************)

SeaDone == pc = "done" /\ loc.fn = "get_sea_level"

\* the pixels of the call's raster that are candidates: below the height threshold
CandidatePixels ==
    {p \in Pixels(args.dem.values) :
        /\ ~IsNaN(args.dem.values[p[1]][p[2]])
        /\ args.dem.values[p[1]][p[2]] < args.candidate_height_thresh_m}

\* the resolution of the call
SeaResolution ==
    IF args.resolution = None THEN args.dem.res ELSE args.resolution[1]

\* the candidates in bin k (0..120) of the histogram: [-15.125 + 0.25k,
\* -15.125 + 0.25(k+1)), the last bin closed at 15.125
CandidatesInBin(k) ==
    Cardinality({p \in CandidatePixels :
        LET v == args.dem.values[p[1]][p[2]]
        IN  /\ v >= 10 * k - 605
            /\ \/ v < 10 * k - 595
               \/ k = 120 /\ v = 605})

\* the candidates outside the range of the histogram
CandidatesOutside ==
    {p \in CandidatePixels :
        \/ args.dem.values[p[1]][p[2]] < -605
        \/ args.dem.values[p[1]][p[2]] > 605}

\* the bin (0..120) of a value inside the range
BinOf(v) == IF v = 605 THEN 120 ELSE (v + 605) \div 10

\* bin k is a fullest bin: no bin holds more candidates (an empty bin holds
\* no more than any)
Fullest(k) ==
    \A p \in CandidatePixels \ CandidatesOutside :
        CandidatesInBin(BinOf(args.dem.values[p[1]][p[2]])) <= CandidatesInBin(k)

\* bin k is the lowest of the fullest bins: every bin below it holds fewer
\* candidates
LowestFullest(k) ==
    /\ Fullest(k)
    /\ \A p \in CandidatePixels \ CandidatesOutside :
          BinOf(args.dem.values[p[1]][p[2]]) < k =>
              CandidatesInBin(BinOf(args.dem.values[p[1]][p[2]]))
                  < CandidatesInBin(k)
    /\ CandidatePixels = CandidatesOutside => k = 0

\* C1: get_sea_level returns None exactly when the number of pixels below
\* candidate_height_thresh_m is smaller than
\* candidate_area_thresh_km2 * 1e6 / resolution^2, and a scalar otherwise.
C1_NoneIffBelowAreaThreshold ==
    SeaDone =>
        (ret = None <=>
            Cardinality(CandidatePixels) * SeaResolution * SeaResolution
                < args.candidate_area_thresh_m2)

\* C2 as stated: with enough candidates, all of them at 2.1 m, the result is
\* the bin centre 2.125 m.
C2_ClusterAt2100Gives2125 ==
    (/\ SeaDone
     /\ ret # None
     /\ CandidatePixels # {}
     /\ \A p \in CandidatePixels : args.dem.values[p[1]][p[2]] = 84)
        => ret = Some(85)

\* C2 amended: with enough candidates the result is the centre -15.0 + 0.25k
\* of a highest-count bin k of the 121 bins of width 0.25 m over
\* [-15.125, 15.125] m; when all candidates lie in [1.875, 2.125) m (for
\* instance at 2.1 m) the result is 2.0 m.
C2_ModalBinCentre ==
    (SeaDone /\ ret # None) =>
        /\ \E k \in 0..120 :
              /\ ret = Some(10 * k - 600)
              /\ Fullest(k)
        /\ (/\ CandidatePixels # {}
            /\ \A p \in CandidatePixels :
                  /\ args.dem.values[p[1]][p[2]] >= 75
                  /\ args.dem.values[p[1]][p[2]] < 85)
              => ret = Some(80)

C2_Witness ==
    /\ SeaDone
    /\ ret = Some(80)
    /\ CandidatePixels # {}
    /\ \A p \in CandidatePixels : args.dem.values[p[1]][p[2]] = 84

\* the candidate-pixel count meets the pixel threshold the code derives from
\* the area threshold, int(area / (resolution * 2))
ThresholdMet ==
    (Cardinality(CandidatePixels) + 1) * 2 * SeaResolution
        > args.candidate_area_thresh_m2

\* C17: whenever the candidate-pixel count meets the threshold get_sea_level
\* returns a bin centre -15.0 + 0.25k m, never None (and None otherwise): the
\* count leaves out the nodata pixels and takes in the candidates outside
\* [-15.125, 15.125] m, which the histogram ignores; the centre returned is
\* that of the lowest of the fullest bins, and the lowest centre, -15.0 m,
\* when no candidate lies inside the range.
C17_AlwaysABinCentre ==
    SeaDone =>
        /\ ~ThresholdMet => ret = None
        /\ ThresholdMet =>
              /\ ret # None
              /\ ret[1] \in {10 * k - 600 : k \in 0..120}
              /\ LowestFullest((ret[1] + 600) \div 10)
              /\ CandidatePixels = CandidatesOutside => ret = Some(-600)

\* three pixels, one nodata and two candidates outside the range, meet a
\* threshold of two pixels: the result is -15.0 m
C17_Witness ==
    /\ SeaDone
    /\ args.dem.values = <<<<NaN, -610, 4000>>>>
    /\ args.candidate_height_thresh_m = 4400
    /\ args.candidate_area_thresh_m2 = 4
    /\ SeaResolution = 1
    /\ ret = Some(-600)

\* a tie of the bins of 2.0 m and 2.25 m resolves to 2.0 m
C17_WitnessTie ==
    /\ SeaDone
    /\ args.dem.values = <<<<84, 90>>>>
    /\ ret = Some(80)

(***************************************************************************)
(* finder._bth_kernel                                                      *)
(***************************************************************************)

radius_pxMutant(kernel_diameter_m, resolution) ==
    IntDiv(kernel_diameter_m, resolution)

\* radius_px = int(kernel_diameter_m / resolution / 2)
radius_px(kernel_diameter_m, resolution) ==
    IntDiv(kernel_diameter_m, resolution * 2)

\* X, Y = np.meshgrid(L, L): X[i][j] = L[j] and Y[i][j] = L[i]
MeshX(L) == [i \in 1..Len(L) |-> [j \in 1..Len(L) |-> L[j]]]
MeshY(L) == [i \in 1..Len(L) |-> [j \in 1..Len(L) |-> L[i]]]

_bth_kernel(kernel_diameter_m, resolution) ==
    LET r == radius_px(kernel_diameter_m, resolution)
        L == ARange(-r, r + 1, 1)
        X == MeshX(L)
        Y == MeshY(L)
    IN  [i \in 1..Len(L) |-> [j \in 1..Len(L) |->
            IF X[i][j] * X[i][j] + Y[i][j] * Y[i][j] <= r * r THEN 1 ELSE 0]]

\* bounds of the kernel's inputs
KernelMaxDiam == 13
KernelMaxRes == 4

InitKernel ==
    /\ pc = "call"
    /\ \E d \in 1..KernelMaxDiam, r \in 1..KernelMaxRes :
         args = [kernel_diameter_m |-> d, resolution |-> r]
    /\ loc = [fn |-> "_bth_kernel"]
    /\ ret = None
    /\ lib = LibDefault

CallBthKernel ==
    /\ pc = "call"
    /\ loc.fn = "_bth_kernel"
    /\ ret' = _bth_kernel(args.kernel_diameter_m, args.resolution)
    /\ pc' = "done"
    /\ UNCHANGED <<args, loc, lib>>

NextKernel == CallBthKernel

SpecKernel == InitKernel /\ [][NextKernel]_vars

(***************************************************************************)
(* Claims about _bth_kernel                                                *)
(***************************************************************************)

KernelDone == pc = "done" /\ loc.fn = "_bth_kernel"

\* floor(diameter_m / resolution / 2): the largest r with 2 * r * resolution
\* <= diameter_m
FloorRadius ==
    CHOOSE r \in 0..args.kernel_diameter_m :
        /\ 2 * r * args.resolution <= args.kernel_diameter_m
        /\ 2 * (r + 1) * args.resolution > args.kernel_diameter_m

\* C6: the disc kernel is a square binary matrix of side 2r+1 with
\* r = floor(diameter_m / resolution / 2); the cell at offset (x, y) from the
\* centre is 1 iff x^2 + y^2 <= r^2; the centre cell is 1 (also for r = 0) and
\* the kernel is symmetric under both axis flips and under transposition.
C6_DiscKernel ==
    KernelDone =>
        LET r == FloorRadius
            n == 2 * r + 1
        IN  /\ Len(ret) = n
            /\ \A i \in 1..n : Len(ret[i]) = n
            /\ \A y \in -r..r, x \in -r..r :
                  /\ ret[r + 1 + y][r + 1 + x] \in {0, 1}
                  /\ ret[r + 1 + y][r + 1 + x] = 1 <=> x * x + y * y <= r * r
            /\ ret[r + 1][r + 1] = 1
            /\ \A i \in 1..n, j \in 1..n :
                  /\ ret[i][j] = ret[n + 1 - i][j]
                  /\ ret[i][j] = ret[i][n + 1 - j]
                  /\ ret[i][j] = ret[j][i]

\* a kernel of radius 2: its corners are outside the disc, its axes inside
C6_Witness ==
    /\ KernelDone
    /\ Len(ret) = 5
    /\ ret[1][1] = 0
    /\ ret[1][3] = 1
    /\ ret[3][3] = 1

(***************************************************************************)
(* finder.bth_filter                                                       *)
(***************************************************************************)

\* the pixels of src under the kernel anchored (at its centre) on pixel p; the
\* cells that fall outside the image are left out (cv2's default border value)
Under(src, kernel, p) ==
    LET c == (Len(kernel) + 1) \div 2
    IN  {t \in Pixels(src) :
            /\ t[1] - p[1] + c \in 1..Len(kernel)
            /\ t[2] - p[2] + c \in 1..Len(kernel)
            /\ kernel[t[1] - p[1] + c][t[2] - p[2] + c] # 0}

SetMax(S) == CHOOSE m \in S : \A x \in S : x <= m
SetMin(S) == CHOOSE m \in S : \A x \in S : m <= x

\* the maximum (minimum) of the values of a window that may hold NaN
WindowMax(S, nan_minmax) ==
    IF S \ {NaN} = {} \/ (NaN \in S /\ nan_minmax = "propagate") THEN NaN
    ELSE SetMax(S \ {NaN})

WindowMin(S, nan_minmax) ==
    IF S \ {NaN} = {} \/ (NaN \in S /\ nan_minmax = "propagate") THEN NaN
    ELSE SetMin(S \ {NaN})

\* cv2.dilate at pixel p: the maximum of src under the kernel
DilateAt(src, kernel, nan_minmax, p) ==
    WindowMax({src[q[1]][q[2]] : q \in Under(src, kernel, p)}, nan_minmax)

ClosingAtMutant(src, kernel, nan_minmax, p) ==
    WindowMin({src[q[1]][q[2]] : q \in Under(src, kernel, p)}, nan_minmax)

\* MORPH_CLOSE at pixel p: cv2.erode of cv2.dilate, the minimum under the
\* kernel of the dilated image
ClosingAt(src, kernel, nan_minmax, p) ==
    WindowMin({DilateAt(src, kernel, nan_minmax, q) :
                   q \in Under(src, kernel, p)}, nan_minmax)

\* cv2.morphologyEx(src, MORPH_BLACKHAT, kernel): the closing minus src
MorphBlackHat(src, kernel, nan_minmax) ==
    [i \in 1..Rows(src) |-> [j \in 1..Cols(src) |->
        Sub(ClosingAt(src, kernel, nan_minmax, <<i, j>>), src[i][j])]]

\* the DataArray x * 0 + nd: the ndarray nd with the geometry of x
WithGeometryOf(x, nd) ==
    [values |-> [i \in 1..Rows(x.values) |-> [j \in 1..Cols(x.values) |->
                    Add(Mul(x.values[i][j], 0), nd[i][j])]],
     res |-> x.res]

bth_filter(dem_detrended, kernel_diameter_m, resolution, nan_minmax) ==
    LET res == Resolved(dem_detrended, resolution)
        kernel == _bth_kernel(kernel_diameter_m, res)
        bth == MorphBlackHat(dem_detrended.values, kernel, nan_minmax)
    IN  WithGeometryOf(dem_detrended, bth)

\* bounds of the inputs of bth_filter
BthMaxPix == 4
BthMaxDiam == 6
BthMaxRes == 2

BthVals == {NaN, 0, 1, 3}

InitBth ==
    /\ pc = "call"
    /\ \E v \in Rasters(BthMaxPix, BthVals), g \in 1..BthMaxRes,
          r \in {None, Some(BthMaxRes)}, d \in 1..BthMaxDiam :
         args = [dem_detrended |-> [values |-> v, res |-> g],
                 kernel_diameter_m |-> d, resolution |-> r]
    /\ loc = [fn |-> "bth_filter"]
    /\ ret = None
    /\ \E m \in {"skip", "propagate"} : lib = [LibDefault EXCEPT !.nan_minmax = m]

CallBthFilter ==
    /\ pc = "call"
    /\ loc.fn = "bth_filter"
    /\ ret' = bth_filter(args.dem_detrended, args.kernel_diameter_m,
                         args.resolution, lib.nan_minmax)
    /\ pc' = "done"
    /\ UNCHANGED <<args, loc, lib>>

NextBth == CallBthFilter

SpecBth == InitBth /\ [][NextBth]_vars

(***************************************************************************)
(* Claims about bth_filter                                                 *)
(***************************************************************************)

BthDone == pc = "done" /\ loc.fn = "bth_filter"

HasNoData(a) == \E p \in Pixels(a) : IsNaN(a[p[1]][p[2]])

\* C5 as stated: for any input raster and any kernel diameter the response of
\* bth_filter is non-negative at every pixel.
C5_ResponseNonNegative ==
    BthDone =>
        \A p \in Pixels(ret.values) : Ge(ret.values[p[1]][p[2]], 0)

\* C5 amended: the response has the shape of the input and is nodata at
\* every nodata pixel of the input; for an input without nodata pixels it is
\* non-negative at every pixel, for any kernel diameter.
C5_ResponseNonNegativeOrNoData ==
    BthDone =>
        /\ Shape(ret.values) = Shape(args.dem_detrended.values)
        /\ \A p \in Pixels(ret.values) :
              IsNaN(args.dem_detrended.values[p[1]][p[2]])
                  => IsNaN(ret.values[p[1]][p[2]])
        /\ ~HasNoData(args.dem_detrended.values)
              => \A p \in Pixels(ret.values) : Ge(ret.values[p[1]][p[2]], 0)

\* a pit between two higher pixels, closed by a kernel of radius 1 or more
C5_Witness ==
    /\ BthDone
    /\ args.dem_detrended.values = <<<<3, 0, 3>>>>
    /\ ret.values = <<<<0, 3, 0>>>>

(***************************************************************************)
(* finder.threshold_depth                                                  *)
(***************************************************************************)

WhereGeMutant(a, thresh) ==
    [i \in 1..Rows(a) |-> [j \in 1..Cols(a) |->
        IF Gt(a[i][j], thresh) THEN 1 ELSE 0]]

\* np.where(a >= thresh, 1, 0).astype(np.int8)
WhereGe(a, thresh) ==
    [i \in 1..Rows(a) |-> [j \in 1..Cols(a) |->
        IF Ge(a[i][j], thresh) THEN 1 ELSE 0]]

threshold_depth(bth, depth_thresh_m) ==
    WithGeometryOf(bth, WhereGe(bth.values, depth_thresh_m))

\* bound of the inputs of threshold_depth
ThreshMaxPix == 4

ThreshVals == {NaN, 0, 1, 2}
ThreshDepths == {0, 1, 2}

InitThresh ==
    /\ pc = "call"
    /\ \E v \in Rasters(ThreshMaxPix, ThreshVals), t \in ThreshDepths :
         args = [bth |-> [values |-> v, res |-> 2], depth_thresh_m |-> t]
    /\ loc = [fn |-> "threshold_depth"]
    /\ ret = None
    /\ lib = LibDefault

CallThresholdDepth ==
    /\ pc = "call"
    /\ loc.fn = "threshold_depth"
    /\ ret' = threshold_depth(args.bth, args.depth_thresh_m)
    /\ pc' = "done"
    /\ UNCHANGED <<args, loc, lib>>

NextThresh == CallThresholdDepth

SpecThresh == InitThresh /\ [][NextThresh]_vars

(***************************************************************************)
(* Claims about threshold_depth                                            *)
(***************************************************************************)

ThreshDone == pc = "done" /\ loc.fn = "threshold_depth"

\* C3 as stated: for any input raster, also one with nodata pixels, the
\* output has the shape of the input and every pixel of it is 1 if the BTH
\* value is >= depth_thresh_m and 0 otherwise, so it holds only 0 and 1.
C3_MaskIsZeroOne ==
    ThreshDone =>
        /\ Shape(ret.values) = Shape(args.bth.values)
        /\ \A p \in Pixels(ret.values) :
              /\ ret.values[p[1]][p[2]] \in {0, 1}
              /\ ret.values[p[1]][p[2]] = 1
                    <=> Ge(args.bth.values[p[1]][p[2]], args.depth_thresh_m)

\* C3 amended: the output has the shape of the input; at every pixel whose
\* BTH value is valid it is 1 if the value is >= depth_thresh_m (the
\* threshold included) and 0 otherwise; at every nodata pixel it is nodata.
C3_MaskIsZeroOneOrNoData ==
    ThreshDone =>
        /\ Shape(ret.values) = Shape(args.bth.values)
        /\ \A p \in Pixels(ret.values) :
              LET b == args.bth.values[p[1]][p[2]]
                  m == ret.values[p[1]][p[2]]
              IN  IF IsNaN(b) THEN IsNaN(m)
                  ELSE /\ m \in {0, 1}
                       /\ m = 1 <=> b >= args.depth_thresh_m

\* a raster with a pixel at the threshold, one below it and a nodata pixel
C3_Witness ==
    /\ ThreshDone
    /\ args.depth_thresh_m = 1
    /\ args.bth.values = <<<<1, 0, NaN>>>>
    /\ ret.values = <<<<1, 0, NaN>>>>

(***************************************************************************)
(* finder.interpolate_surface and finder.calc_depth                        *)
(***************************************************************************)

\* mask.astype('uint8') of one mask value
MaskByte(m, nan_cast) ==
    IF IsNaN(m) THEN (IF nan_cast = "zero" THEN 0 ELSE 1) ELSE m % 256

\* the weighted mean of the values S, as far as lib fixes it
WeightedMean(S, mean) ==
    IF S \ {NaN} = {} \/ (NaN \in S /\ mean = "nan") THEN NaN
    ELSE IF mean = "hi" THEN SetMax(S \ {NaN})
    ELSE SetMin(S \ {NaN})

\* the pixels of image that mask declares valid, within distance dist of p
ValidWithin(image, mask, nan_cast, p, dist) ==
    {q \in Pixels(image) :
        /\ MaskByte(mask[q[1]][q[2]], nan_cast) # 0
        /\ (q[1] - p[1]) * (q[1] - p[1]) + (q[2] - p[2]) * (q[2] - p[2])
              <= dist * dist}

\* rasterio.fill.fillnodata: the image after the call.  A pixel the mask
\* declares valid keeps its value; so does a hole with no valid pixel within
\* max_search_distance; any other hole gets a weighted mean of valid pixels
\* around it, which the smoothing passes (a 3x3 mean over the filled pixels)
\* widen by at most two pixels each.
fillnodata(image, mask, max_search_distance, smoothing_iterations, l) ==
    [i \in 1..Rows(image) |-> [j \in 1..Cols(image) |->
        IF \/ l.fill = "returned"
           \/ MaskByte(mask[i][j], l.nan_cast) # 0
           \/ ValidWithin(image, mask, l.nan_cast, <<i, j>>,
                          max_search_distance) = {}
        THEN image[i][j]
        ELSE WeightedMean(
                 {image[q[1]][q[2]] :
                     q \in ValidWithin(image, mask, l.nan_cast, <<i, j>>,
                         max_search_distance + 2 * smoothing_iterations)},
                 l.fill)]]

\* numpy.maximum: NaN if either is NaN
Maximum(a, b) == IF IsNaN(a) \/ IsNaN(b) THEN NaN ELSE IF a >= b THEN a ELSE b

ClampMutant(d, f) == f

\* maximum(dem, dem * 0 + dem_idw) at one pixel
Clamp(d, f) == Maximum(d, Add(Mul(d, 0), f))

interpolate_surface(dem, crev_mask, search_dist_px, smoothing_iterations, l) ==
    LET mask == [i \in 1..Rows(dem.values) |-> [j \in 1..Cols(dem.values) |->
                    Sub(1, crev_mask.values[i][j])]]
        dem_idw == fillnodata(dem.values, mask, search_dist_px,
                              smoothing_iterations, l)
    IN  [values |-> [i \in 1..Rows(dem.values) |-> [j \in 1..Cols(dem.values) |->
                        IF Ge(crev_mask.values[i][j], 0)
                        THEN Clamp(dem.values[i][j], dem_idw[i][j])
                        ELSE NaN]],
         res |-> dem.res]

\* dem_filled - dem
calc_depth(dem, dem_filled) ==
    [values |-> [i \in 1..Rows(dem.values) |-> [j \in 1..Cols(dem.values) |->
                    Sub(dem_filled.values[i][j], dem.values[i][j])]],
     res |-> dem.res]

\* bound of the inputs of interpolate_surface
FillMaxPix == 3

FillVals == {NaN, 1, 4}
MaskVals == {NaN, 0, 1}
FillDists == {0, 1, 2}
FillSmoothings == {0, 2}

InitFill ==
    /\ pc = "call"
    /\ \E v \in Rasters(FillMaxPix, FillVals), d \in FillDists,
          k \in FillSmoothings :
         \E m \in RastersOfShape(Rows(v), Cols(v), MaskVals) :
            args = [dem |-> [values |-> v, res |-> 2],
                    crev_mask |-> [values |-> m, res |-> 2],
                    search_dist_px |-> d, smoothing_iterations |-> k]
    /\ loc = [fn |-> "interpolate_surface"]
    /\ ret = None
    /\ lib = LibDefault

\* dem_filled = interpolate_surface(dem, crev_mask, ...), with whatever the
\* libraries at hand do
CallInterpolateSurface ==
    /\ pc = "call"
    /\ loc.fn = "interpolate_surface"
    /\ \E l \in FillLibs :
         ret' = interpolate_surface(args.dem, args.crev_mask,
                    args.search_dist_px, args.smoothing_iterations, l)
    /\ pc' = "filled"
    /\ UNCHANGED <<args, loc, lib>>

\* calc_depth(dem, dem_filled)
CallCalcDepth ==
    /\ pc = "filled"
    /\ loc' = [fn |-> "calc_depth", dem_filled |-> ret]
    /\ ret' = calc_depth(args.dem, ret)
    /\ pc' = "done"
    /\ UNCHANGED <<args, lib>>

NextFill == CallInterpolateSurface \/ CallCalcDepth

SpecFill == InitFill /\ [][NextFill]_vars

(***************************************************************************)
(* Claims about interpolate_surface and calc_depth                         *)
(***************************************************************************)

Filled == pc = "filled" /\ loc.fn = "interpolate_surface"
DepthDone == pc = "done" /\ loc.fn = "calc_depth"

Flagged(p) == args.crev_mask.values[p[1]][p[2]] = 1

\* C4 as stated: the output of interpolate_surface is >= dem at every pixel,
\* and calc_depth of it is non-negative at every pixel the crevasse mask
\* flags 1.
C4_FilledGeDem ==
    /\ Filled =>
          \A p \in Pixels(args.dem.values) :
              Ge(ret.values[p[1]][p[2]], args.dem.values[p[1]][p[2]])
    /\ DepthDone =>
          \A p \in Pixels(args.dem.values) :
              Flagged(p) => Ge(ret.values[p[1]][p[2]], 0)

\* C4 amended: the output of interpolate_surface is, at every pixel, nodata
\* or not less than dem, and nodata wherever dem is; calc_depth of it is, at
\* every pixel the crevasse mask flags 1, nodata or non-negative (also at
\* flagged pixels with no valid pixel within the search distance).
C4_FilledGeDemOrNoData ==
    /\ Filled =>
          /\ Shape(ret.values) = Shape(args.dem.values)
          /\ \A p \in Pixels(args.dem.values) :
                LET f == ret.values[p[1]][p[2]]
                    d == args.dem.values[p[1]][p[2]]
                IN  IF IsNaN(d) THEN IsNaN(f) ELSE IsNaN(f) \/ f >= d
    /\ DepthDone =>
          \A p \in Pixels(args.dem.values) :
              Flagged(p) =>
                  \/ IsNaN(ret.values[p[1]][p[2]])
                  \/ ret.values[p[1]][p[2]] >= 0

\* a flagged pit that was filled from its higher neighbour (depth 3) beside a
\* flagged pixel with no valid pixel in reach (depth 0)
C4_Witness ==
    /\ DepthDone
    /\ args.search_dist_px = 1
    /\ args.dem.values = <<<<4, 1, 4>>>>
    /\ args.crev_mask.values = <<<<0, 1, 1>>>>
    /\ ret.values = <<<<0, 3, 0>>>>

(***************************************************************************)
(* finder.detrend                                                          *)
(***************************************************************************)

\* gauss_std_px = int(np.round(gauss_std / resolution))
gauss_std_px(gauss_std, resolution) == NpRound(gauss_std, resolution)

\* ksize = int(np.round(gauss_std_px * gauss_cutoff)), made odd; gauss_cutoff
\* is given in halves (1.0 is 2)
ksize(std_px, gauss_cutoff_halves) ==
    LET k == NpRound(std_px * gauss_cutoff_halves, 2)
    IN  IF k % 2 = 0 THEN k + 1 ELSE k

\* cv2.GaussianBlur(src, (k, k), sigma) at pixel p: a weighted mean, with
\* positive weights, of the k x k window around p (the border reflects into
\* the window); a window of one pixel is the pixel
GaussianBlurAt(src, k, p, blur) ==
    LET h == (k - 1) \div 2
        S == {src[q[1]][q[2]] : q \in {t \in Pixels(src) :
                 /\ t[1] - p[1] \in -h..h
                 /\ t[2] - p[2] \in -h..h}}
    IN  IF NaN \in S THEN NaN ELSE WeightedMean(S, blur)

detrend(dem, gauss_std, gauss_cutoff_halves, resolution, l) ==
    LET res == Resolved(dem, resolution)
        std_px == gauss_std_px(gauss_std, res)
        k == ksize(std_px, gauss_cutoff_halves)
    IN  [values |-> [i \in 1..Rows(dem.values) |-> [j \in 1..Cols(dem.values) |->
                        Sub(dem.values[i][j],
                            GaussianBlurAt(dem.values, k, <<i, j>>, l.blur))]],
         res |-> dem.res]

(***************************************************************************)
(* finder.find                                                             *)
(***************************************************************************)

\* the defaults of find's parameters, and the smoothing_iterations it passes
DefaultRange == 60
DefaultGaussMult == 3
DefaultGaussCutoffHalves == 2
DefaultDepthThresh == 1
FindSmoothingIterations == 2

\* a Python value compared with a bool: retain_intermediates == False
PyBool(b) == [type |-> "bool", val |-> b]
PyTuple(t) == [type |-> "tuple", val |-> t]
PyEq(x, b) == x.type = "bool" /\ x.val = b

gauss_stdMutant(range, gauss_mult) == 200

\* gauss_std = range * gauss_mult
gauss_std(range, gauss_mult) == range * gauss_mult

search_dist_pxMutant(range, resolution) == NpRound(range, resolution)

\* search_dist_px = int(np.round(range / resolution)) * 2
search_dist_px(range, resolution) == NpRound(range, resolution) * 2

PrintedMutant(out, verbose, text) == Append(out, text)

\* print(...) when verbose
Printed(out, verbose, text) == IF verbose THEN Append(out, text) ELSE out

\* whether a stage handed this resolution argument calls get_resolution
Resolves(resolution) == IF resolution = None THEN 1 ELSE 0

BundleMutant(dem, l) ==
    [dem |-> dem, dem_detrended |-> l.dem_detrended, bth |-> l.bth,
     crev_mask |-> l.crev_mask, dem_filled |-> l.dem_filled]

\* xds = dem.to_dataset(name="dem") and the five variables added to it
Bundle(dem, l) ==
    [dem |-> dem, dem_detrended |-> l.dem_detrended, bth |-> l.bth,
     crev_mask |-> l.crev_mask, dem_filled |-> l.dem_filled,
     crev_depth |-> l.crev_depth]

\* bounds of the inputs of find
FindMaxPix == 3
FindMaxRes == 2

FindVals == {NaN, 0, 3}
FindRanges == {5, DefaultRange}
FindGaussMults == {1, DefaultGaussMult}
FindRetains == {PyBool(FALSE), PyBool(TRUE), PyTuple(<<"bth">>)}

InitFind ==
    /\ pc = "call"
    /\ \E v \in Rasters(FindMaxPix, FindVals), g \in 1..FindMaxRes,
          r \in {None, Some(FindMaxRes)}, rg \in FindRanges,
          gm \in FindGaussMults, rt \in FindRetains, vb \in BOOLEAN :
         args = [dem |-> [values |-> v, res |-> g], resolution |-> r,
                 range |-> rg, gauss_mult |-> gm,
                 gauss_cutoff_halves |-> DefaultGaussCutoffHalves,
                 depth_thresh_m |-> DefaultDepthThresh,
                 retain_intermediates |-> rt, verbose |-> vb]
    /\ loc = [fn |-> "find", resolves |-> 0, calls |-> <<>>, stdout |-> <<>>]
    /\ ret = None
    /\ lib = LibDefault

\* find's locals after "if resolution == None: resolution = get_resolution(dem)"
StepResolution(a, lo) ==
    [fn |-> "find",
     resolution |-> Resolved(a.dem, a.resolution),
     resolves |-> lo.resolves + Resolves(a.resolution),
     calls |-> lo.calls, stdout |-> lo.stdout]

\* Step 1: dem_detrended = detrend(dem, gauss_std, gauss_cutoff, resolution)
Step1Detrend(a, lo, l) ==
    LET std == gauss_std(a.range, a.gauss_mult)
        r == Some(lo.resolution)
    IN  [fn |-> "find", resolution |-> lo.resolution,
         resolves |-> lo.resolves + Resolves(r),
         calls |-> Append(lo.calls,
             [fn |-> "detrend", dem |-> a.dem, gauss_std |-> std,
              gauss_cutoff_halves |-> a.gauss_cutoff_halves,
              resolution |-> r]),
         stdout |-> Printed(lo.stdout, a.verbose, "Detrending..."),
         dem_detrended |-> detrend(a.dem, std, a.gauss_cutoff_halves, r, l)]

\* Step 2: bth = bth_filter(dem_detrended, kernel_diameter_m=range, resolution)
Step2Bth(a, lo, l) ==
    LET r == Some(lo.resolution)
    IN  [fn |-> "find", resolution |-> lo.resolution,
         resolves |-> lo.resolves + Resolves(r),
         calls |-> Append(lo.calls,
             [fn |-> "bth_filter", dem_detrended |-> lo.dem_detrended,
              kernel_diameter_m |-> a.range, resolution |-> r]),
         stdout |-> Printed(lo.stdout, a.verbose,
                            "Applying Black Top Hat filter..."),
         dem_detrended |-> lo.dem_detrended,
         bth |-> bth_filter(lo.dem_detrended, a.range, r, l.nan_minmax)]

\* Step 3: crev_mask = threshold_depth(bth, depth_thresh_m)
Step3Threshold(a, lo) ==
    [fn |-> "find", resolution |-> lo.resolution,
     resolves |-> lo.resolves,
     calls |-> Append(lo.calls,
         [fn |-> "threshold_depth", bth |-> lo.bth,
          depth_thresh_m |-> a.depth_thresh_m]),
     stdout |-> Printed(lo.stdout, a.verbose, "Applying depth threshold..."),
     dem_detrended |-> lo.dem_detrended, bth |-> lo.bth,
     crev_mask |-> threshold_depth(lo.bth, a.depth_thresh_m)]

\* Step 4: dem_filled = interpolate_surface(dem, crev_mask, search_dist_px, 2)
Step4Fill(a, lo, l) ==
    LET dist == search_dist_px(a.range, lo.resolution)
    IN  [fn |-> "find", resolution |-> lo.resolution,
         resolves |-> lo.resolves,
         calls |-> Append(lo.calls,
             [fn |-> "interpolate_surface", dem |-> a.dem,
              crev_mask |-> lo.crev_mask, search_dist_px |-> dist,
              smoothing_iterations |-> FindSmoothingIterations]),
         stdout |-> Printed(lo.stdout, a.verbose, "Interpolating surface..."),
         dem_detrended |-> lo.dem_detrended, bth |-> lo.bth,
         crev_mask |-> lo.crev_mask,
         dem_filled |-> interpolate_surface(a.dem, lo.crev_mask, dist,
                                            FindSmoothingIterations, l)]

\* Step 5: crev_depth = calc_depth(dem, dem_filled); print("Finished")
Step5Depth(a, lo) ==
    [fn |-> "find", resolution |-> lo.resolution,
     resolves |-> lo.resolves,
     calls |-> Append(lo.calls,
         [fn |-> "calc_depth", dem |-> a.dem, dem_filled |-> lo.dem_filled]),
     stdout |-> Append(Printed(lo.stdout, a.verbose,
                               "Calculating crevasse depth..."),
                       "Finished"),
     dem_detrended |-> lo.dem_detrended, bth |-> lo.bth,
     crev_mask |-> lo.crev_mask, dem_filled |-> lo.dem_filled,
     crev_depth |-> calc_depth(a.dem, lo.dem_filled)]

\* Step 6: return crev_depth if retain_intermediates == False, the Dataset
\* if retain_intermediates == True; otherwise the function ends and returns
\* None
Step6Return(a, lo) ==
    IF PyEq(a.retain_intermediates, FALSE) THEN lo.crev_depth
    ELSE IF PyEq(a.retain_intermediates, TRUE) THEN Bundle(a.dem, lo)
    ELSE None

FindResolution ==
    /\ pc = "call"
    /\ loc.fn = "find"
    /\ loc' = StepResolution(args, loc)
    /\ pc' = "detrend"
    /\ UNCHANGED <<args, ret, lib>>

FindDetrend ==
    /\ pc = "detrend"
    /\ loc.fn = "find"
    /\ \E l \in BlurLibs : loc' = Step1Detrend(args, loc, l)
    /\ pc' = "bth"
    /\ UNCHANGED <<args, ret, lib>>

FindBth ==
    /\ pc = "bth"
    /\ loc.fn = "find"
    /\ \E l \in MorphLibs : loc' = Step2Bth(args, loc, l)
    /\ pc' = "thresh"
    /\ UNCHANGED <<args, ret, lib>>

FindThreshold ==
    /\ pc = "thresh"
    /\ loc.fn = "find"
    /\ loc' = Step3Threshold(args, loc)
    /\ pc' = "fill"
    /\ UNCHANGED <<args, ret, lib>>

FindFill ==
    /\ pc = "fill"
    /\ loc.fn = "find"
    /\ \E l \in FillLibs : loc' = Step4Fill(args, loc, l)
    /\ pc' = "depth"
    /\ UNCHANGED <<args, ret, lib>>

FindDepth ==
    /\ pc = "depth"
    /\ loc.fn = "find"
    /\ loc' = Step5Depth(args, loc)
    /\ pc' = "return"
    /\ UNCHANGED <<args, ret, lib>>

FindReturn ==
    /\ pc = "return"
    /\ loc.fn = "find"
    /\ ret' = Step6Return(args, loc)
    /\ pc' = "done"
    /\ UNCHANGED <<args, loc, lib>>

NextFind ==
    \/ FindResolution
    \/ FindDetrend
    \/ FindBth
    \/ FindThreshold
    \/ FindFill
    \/ FindDepth
    \/ FindReturn

SpecFind == InitFind /\ [][NextFind]_vars

(***************************************************************************)
(* Claims about find                                                       *)
(***************************************************************************)

FindDone == pc = "done" /\ loc.fn = "find"

\* a call that ended without a return statement returned None
IsNone(x) == DOMAIN x = {}

BundleNames ==
    {"dem", "dem_detrended", "bth", "crev_mask", "dem_filled", "crev_depth"}

\* the resolution find works with
FindResolved ==
    IF args.resolution = None THEN args.dem.res ELSE args.resolution[1]

C8_NeverReturnsNothing ==
    FindDone => ~IsNone(ret)

\* C9 as stated: with the default parameters (range 60 m) find runs the
\* Detrender with a standard deviation of 200 m.
C9_DefaultStdIs200 ==
    (/\ loc.fn = "find"
     /\ Len(loc.calls) >= 1
     /\ args.range = DefaultRange
     /\ args.gauss_mult = DefaultGaussMult)
        => loc.calls[1].gauss_std = 200

\* C9 amended: find runs the Detrender with the standard deviation
\* range * gauss_mult, which is 180 m with the default parameters (range
\* 60 m, gauss_mult 3): it is no value of its own but follows the range.
C9_StdIsRangeTimesMult ==
    (loc.fn = "find" /\ Len(loc.calls) >= 1) =>
        /\ loc.calls[1].fn = "detrend"
        /\ loc.calls[1].gauss_std = args.range * args.gauss_mult
        /\ (args.range = 60 /\ args.gauss_mult = 3)
              => loc.calls[1].gauss_std = 180
        /\ (args.range = 5 /\ args.gauss_mult = 3)
              => loc.calls[1].gauss_std = 15

C9_Witness ==
    /\ FindDone
    /\ args.range = DefaultRange
    /\ args.gauss_mult = DefaultGaussMult
    /\ loc.calls[1].fn = "detrend"
    /\ loc.calls[1].gauss_std = 180

\* round(range / resolution): the integer nearest to the quotient, the even
\* one of two equally near
RoundedRangePx ==
    CHOOSE n \in 0..args.range :
        LET twice == 2 * (args.range - n * FindResolved)
            gap == IF twice >= 0 THEN twice ELSE -twice
        IN  /\ gap <= FindResolved
            /\ gap = FindResolved => n % 2 = 0

\* C10: find runs detrend, bth_filter, threshold_depth, interpolate_surface
\* and calc_depth in this order, each on the output of the stage before; the
\* BTH kernel diameter is the range, search_dist_px is
\* round(range / resolution) * 2, the gap filler and the depth calculator
\* work on the original DEM; the resolution is resolved at most once and the
\* same value goes to every stage that takes one.
C10_StageOrder ==
    FindDone =>
        /\ Len(loc.calls) = 5
        /\ loc.calls[1] =
              [fn |-> "detrend", dem |-> args.dem,
               gauss_std |-> loc.calls[1].gauss_std,
               gauss_cutoff_halves |-> args.gauss_cutoff_halves,
               resolution |-> Some(FindResolved)]
        /\ loc.calls[2] =
              [fn |-> "bth_filter", dem_detrended |-> loc.dem_detrended,
               kernel_diameter_m |-> args.range,
               resolution |-> Some(FindResolved)]
        /\ loc.calls[3] =
              [fn |-> "threshold_depth", bth |-> loc.bth,
               depth_thresh_m |-> args.depth_thresh_m]
        /\ loc.calls[4] =
              [fn |-> "interpolate_surface", dem |-> args.dem,
               crev_mask |-> loc.crev_mask,
               search_dist_px |-> RoundedRangePx * 2,
               smoothing_iterations |-> 2]
        /\ loc.calls[5] =
              [fn |-> "calc_depth", dem |-> args.dem,
               dem_filled |-> loc.dem_filled]
        /\ loc.resolves <= 1
        /\ loc.resolves = 1 <=> args.resolution = None

\* a run that resolved the resolution itself (2 m) and rounded the range of
\* 5 m, 2.5 pixels, to 2
C10_Witness ==
    /\ FindDone
    /\ args.resolution = None
    /\ args.dem.res = 2
    /\ args.range = 5
    /\ loc.resolves = 1
    /\ loc.calls[4].search_dist_px = 4

(***************************************************************************)
(* Two runs of find that differ only in the verbose flag                   *)
(***************************************************************************)

\* the builds of the numeric libraries the two runs are compared under: the
\* default and every build that differs from it in one behaviour
Builds ==
    {l \in Libs :
        Cardinality({n \in DOMAIN l : l[n] # LibDefault[n]}) <= 1}

\* the locals of find before its first statement
FindLocals == [fn |-> "find", resolves |-> 0, calls |-> <<>>, stdout |-> <<>>]

\* the same arguments with another verbose flag
WithVerbose(a, vb) == [a EXCEPT !.verbose = vb]

\* The two runs share the arguments but the flag, and the build: args is the
\* quiet run's arguments, loc and ret hold the locals and the returned value
\* of the quiet run (verbose = False) and of the loud run (verbose = True).
InitVerbose ==
    /\ pc = "call"
    /\ \E v \in Rasters(FindMaxPix, FindVals), g \in 1..FindMaxRes,
          r \in {None, Some(FindMaxRes)}, rg \in FindRanges,
          rt \in FindRetains :
         args = [dem |-> [values |-> v, res |-> g], resolution |-> r,
                 range |-> rg, gauss_mult |-> DefaultGaussMult,
                 gauss_cutoff_halves |-> DefaultGaussCutoffHalves,
                 depth_thresh_m |-> DefaultDepthThresh,
                 retain_intermediates |-> rt, verbose |-> FALSE]
    /\ loc = [fn |-> "find twice", quiet |-> FindLocals, loud |-> FindLocals]
    /\ ret = [quiet |-> None, loud |-> None]
    /\ lib \in Builds

VerboseResolution ==
    /\ pc = "call"
    /\ loc.fn = "find twice"
    /\ loc' = [fn |-> "find twice",
               quiet |-> StepResolution(WithVerbose(args, FALSE), loc.quiet),
               loud |-> StepResolution(WithVerbose(args, TRUE), loc.loud)]
    /\ pc' = "detrend"
    /\ UNCHANGED <<args, ret, lib>>

VerboseDetrend ==
    /\ pc = "detrend"
    /\ loc.fn = "find twice"
    /\ loc' = [fn |-> "find twice",
               quiet |-> Step1Detrend(WithVerbose(args, FALSE), loc.quiet, lib),
               loud |-> Step1Detrend(WithVerbose(args, TRUE), loc.loud, lib)]
    /\ pc' = "bth"
    /\ UNCHANGED <<args, ret, lib>>

VerboseBth ==
    /\ pc = "bth"
    /\ loc.fn = "find twice"
    /\ loc' = [fn |-> "find twice",
               quiet |-> Step2Bth(WithVerbose(args, FALSE), loc.quiet, lib),
               loud |-> Step2Bth(WithVerbose(args, TRUE), loc.loud, lib)]
    /\ pc' = "thresh"
    /\ UNCHANGED <<args, ret, lib>>

VerboseThreshold ==
    /\ pc = "thresh"
    /\ loc.fn = "find twice"
    /\ loc' = [fn |-> "find twice",
               quiet |-> Step3Threshold(WithVerbose(args, FALSE), loc.quiet),
               loud |-> Step3Threshold(WithVerbose(args, TRUE), loc.loud)]
    /\ pc' = "fill"
    /\ UNCHANGED <<args, ret, lib>>

VerboseFill ==
    /\ pc = "fill"
    /\ loc.fn = "find twice"
    /\ loc' = [fn |-> "find twice",
               quiet |-> Step4Fill(WithVerbose(args, FALSE), loc.quiet, lib),
               loud |-> Step4Fill(WithVerbose(args, TRUE), loc.loud, lib)]
    /\ pc' = "depth"
    /\ UNCHANGED <<args, ret, lib>>

VerboseDepth ==
    /\ pc = "depth"
    /\ loc.fn = "find twice"
    /\ loc' = [fn |-> "find twice",
               quiet |-> Step5Depth(WithVerbose(args, FALSE), loc.quiet),
               loud |-> Step5Depth(WithVerbose(args, TRUE), loc.loud)]
    /\ pc' = "return"
    /\ UNCHANGED <<args, ret, lib>>

VerboseReturn ==
    /\ pc = "return"
    /\ loc.fn = "find twice"
    /\ ret' = [quiet |-> Step6Return(WithVerbose(args, FALSE), loc.quiet),
               loud |-> Step6Return(WithVerbose(args, TRUE), loc.loud)]
    /\ pc' = "done"
    /\ UNCHANGED <<args, loc, lib>>

NextVerbose ==
    \/ VerboseResolution
    \/ VerboseDetrend
    \/ VerboseBth
    \/ VerboseThreshold
    \/ VerboseFill
    \/ VerboseDepth
    \/ VerboseReturn

SpecVerbose == InitVerbose /\ [][NextVerbose]_vars

VerboseDone == pc = "done" /\ loc.fn = "find twice"

\* what find prints when verbose, and what it prints in any case
StageMessages ==
    <<"Detrending...", "Applying Black Top Hat filter...",
      "Applying depth threshold...", "Interpolating surface...",
      "Calculating crevasse depth...">>

\* C11: two runs of find that differ only in the verbose flag return the
\* same result (the same depth raster, the same bundle, or both nothing),
\* after the same calls with the same intermediate rasters; the flag changes
\* only what is printed: the five stage messages before "Finished".
C11_VerboseOnlyPrints ==
    /\ loc.fn = "find twice" =>
          \A n \in DOMAIN loc.quiet \ {"stdout"} : loc.quiet[n] = loc.loud[n]
    /\ VerboseDone =>
          /\ ret.quiet = ret.loud
          /\ loc.quiet.stdout = <<"Finished">>
          /\ loc.loud.stdout = StageMessages \o <<"Finished">>

\* both runs returned the depth raster with the filled pit, one of them
\* having printed the stage messages
C11_Witness ==
    /\ VerboseDone
    /\ PyEq(args.retain_intermediates, FALSE)
    /\ args.dem.values = <<<<3, 0, 3>>>>
    /\ ret.quiet.values = <<<<0, 3, 0>>>>
    /\ ret.loud.values = <<<<0, 3, 0>>>>
    /\ Len(loc.loud.stdout) = 6
    /\ Len(loc.quiet.stdout) = 1

(***************************************************************************)
(* preprocess.get_melange_mask and preprocess.mask_melange                 *)
(***************************************************************************)

\* the defaults of the parameters, in units of 0.025 m and in m^2:
\* candidate_height_thresh_m of get_melange_mask (10 m) and of mask_melange
\* (15 m), candidate_area_thresh_km2 (1 km^2) and near_sealevel_thresh_m (10 m)
MelangeMaskHeightDefault == 400
MaskMelangeHeightDefault == 600
CandidateAreaDefault == 1000000
NearSeaLevelDefault == 400

\* a parameter that was given, or its default
OrDefault(p, default) == IF p = None THEN default ELSE p[1]

\* ~dem.isnull()
NotNull(d) ==
    [values |-> [i \in 1..Rows(d.values) |-> [j \in 1..Cols(d.values) |->
                    ~IsNaN(d.values[i][j])]],
     res |-> d.res]

\* dem > limit
GreaterThan(d, limit) ==
    [values |-> [i \in 1..Rows(d.values) |-> [j \in 1..Cols(d.values) |->
                    Gt(d.values[i][j], limit)]],
     res |-> d.res]

get_melange_mask(d, resolution, height_thresh, area_m2, near_thresh) ==
    LET res == Resolved(d, resolution)
        est_sea_level == get_sea_level(d, Some(res), height_thresh, area_m2)
    IN  IF est_sea_level = None
        THEN NotNull(d)
        ELSE GreaterThan(d, est_sea_level[1] + near_thresh)

WhereMutant(d, mask) == d

\* dem.where(mask): the values where mask is true, nodata elsewhere
Where(d, mask) ==
    [values |-> [i \in 1..Rows(d.values) |-> [j \in 1..Cols(d.values) |->
                    IF mask.values[i][j] THEN d.values[i][j] ELSE NaN]],
     res |-> d.res]

\* a call that ended without a return statement, or with "return None"
ReturnedNone(x) == DOMAIN x = {}

\* mask_melange; a DataArray has no attribute dem
mask_melange(d, resolution, height_thresh, area_m2, near_thresh) ==
    LET res == Resolved(d, resolution)
        mask == get_melange_mask(d, Some(res), height_thresh, area_m2,
                                 near_thresh)
    IN  IF ReturnedNone(mask) THEN [error |-> "AttributeError"]
        ELSE Where(d, mask)

\* bounds of the inputs
MelMaxPix == 3
MelMaxRes == 2

\* nodata, 0 m, 2 m, 12 m and 100 m
MelVals == {NaN, 0, 80, 480, 4000}
\* left at the default, 2.5 m, 10 m
MelHeights == {None, Some(100), Some(400)}
MelAreas == {None, Some(0), Some(4)}
MelNears == {None, Some(0)}

InitMelange ==
    /\ pc = "call"
    /\ \E v \in Rasters(MelMaxPix, MelVals), g \in 1..MelMaxRes,
          r \in {None, Some(1)}, h \in MelHeights, a \in MelAreas,
          n \in MelNears :
         args = [dem |-> [values |-> v, res |-> g], resolution |-> r,
                 candidate_height_thresh_m |-> h,
                 candidate_area_thresh_m2 |-> a,
                 near_sealevel_thresh_m |-> n]
    /\ loc = [fn |-> "get_melange_mask"]
    /\ ret = None
    /\ lib = LibDefault

\* get_melange_mask(dem, ...), each parameter given or left at its default
CallGetMelangeMask ==
    /\ pc = "call"
    /\ loc.fn = "get_melange_mask"
    /\ ret' = get_melange_mask(args.dem, args.resolution,
                  OrDefault(args.candidate_height_thresh_m,
                            MelangeMaskHeightDefault),
                  OrDefault(args.candidate_area_thresh_m2, CandidateAreaDefault),
                  OrDefault(args.near_sealevel_thresh_m, NearSeaLevelDefault))
    /\ pc' = "masked"
    /\ UNCHANGED <<args, loc, lib>>

\* mask_melange(dem, ...) with the same parameters; the mask of the call
\* before is kept to compare
CallMaskMelange ==
    /\ pc = "masked"
    /\ loc.fn = "get_melange_mask"
    /\ loc' = [fn |-> "mask_melange", mask |-> ret]
    /\ ret' = mask_melange(args.dem, args.resolution,
                  OrDefault(args.candidate_height_thresh_m,
                            MaskMelangeHeightDefault),
                  OrDefault(args.candidate_area_thresh_m2, CandidateAreaDefault),
                  OrDefault(args.near_sealevel_thresh_m, NearSeaLevelDefault))
    /\ pc' = "done"
    /\ UNCHANGED <<args, lib>>

NextMelange == CallGetMelangeMask \/ CallMaskMelange

SpecMelange == InitMelange /\ [][NextMelange]_vars

(***************************************************************************)
(* Claims about get_melange_mask and mask_melange                          *)
(***************************************************************************)

Masked == pc = "masked" /\ loc.fn = "get_melange_mask"
MelangeDone == pc = "done" /\ loc.fn = "mask_melange"

\* what get_sea_level yields for the arguments, the candidate height
\* threshold being h when it is left at its default
SeaLevelWith(h) ==
    get_sea_level(args.dem, args.resolution,
        OrDefault(args.candidate_height_thresh_m, h),
        OrDefault(args.candidate_area_thresh_m2, 1000000))

NearThresh == OrDefault(args.near_sealevel_thresh_m, 400)

\* C12: get_melange_mask returns a mask in every case; when get_sea_level
\* yields an estimate s (0 included) the mask is true exactly at the pixels
\* with dem > s + near_sealevel_thresh_m, so false at nodata pixels and at
\* pixels equal to the limit; when it yields none the mask is true exactly at
\* the pixels that hold data.
C12_MelangeMask ==
    Masked =>
        LET s == SeaLevelWith(400)
        IN  /\ ~ReturnedNone(ret)
            /\ Shape(ret.values) = Shape(args.dem.values)
            /\ \A p \in Pixels(args.dem.values) :
                  LET d == args.dem.values[p[1]][p[2]]
                      m == ret.values[p[1]][p[2]]
                  IN  /\ m \in BOOLEAN
                      /\ s = None => (m <=> d # NaN)
                      /\ s # None => (m <=> (d # NaN /\ d > s[1] + NearThresh))

\* a sea level of 0 m estimated from two pixels, near_sealevel_thresh_m = 0:
\* the pixels at the limit and the nodata pixel are false
C12_Witness ==
    /\ Masked
    /\ args.dem.values = <<<<0, NaN, 80>>>>
    /\ args.near_sealevel_thresh_m = Some(0)
    /\ SeaLevelWith(400) = Some(0)
    /\ ret.values = <<<<FALSE, FALSE, TRUE>>>>

\* no estimate: the mask is true at the pixels that hold data
C12_WitnessNoEstimate ==
    /\ Masked
    /\ SeaLevelWith(400) = None
    /\ ret.values = <<<<TRUE, FALSE, TRUE>>>>

\* C13 as stated: the output of mask_melange keeps the DEM value exactly where
\* get_melange_mask, called with the same parameters given or left at their
\* defaults, is true, and is nodata elsewhere.
C13_AppliesMelangeMask ==
    MelangeDone =>
        \A p \in Pixels(args.dem.values) :
            ret.values[p[1]][p[2]] =
                IF loc.mask.values[p[1]][p[2]]
                THEN args.dem.values[p[1]][p[2]] ELSE NaN

\* C13 amended: the candidate height threshold of mask_melange defaults to
\* 15 m, not to the 10 m of get_melange_mask.  The output keeps the DEM value
\* exactly where dem > s + near_sealevel_thresh_m, s being the sea level
\* estimated with the given threshold or with 15 m, and is nodata elsewhere;
\* it is the DEM masked by get_melange_mask called with the same parameters
\* whenever the threshold is given; when no sea level is identified it equals
\* the input DEM.
C13_AppliesMelangeMaskDefault15 ==
    MelangeDone =>
        LET s == SeaLevelWith(600)
        IN  /\ DOMAIN ret = {"values", "res"}
            /\ Shape(ret.values) = Shape(args.dem.values)
            /\ \A p \in Pixels(args.dem.values) :
                  LET d == args.dem.values[p[1]][p[2]]
                      o == ret.values[p[1]][p[2]]
                  IN  /\ s = None => o = d
                      /\ s # None =>
                            o = IF d # NaN /\ d > s[1] + NearThresh
                                THEN d ELSE NaN
                      /\ args.candidate_height_thresh_m # None =>
                            o = IF loc.mask.values[p[1]][p[2]]
                                THEN d ELSE NaN

\* the threshold left at its default: two pixels at 12 m are candidates for
\* mask_melange, which estimates 12 m and nulls them, and none for
\* get_melange_mask, which keeps them
C13_Witness ==
    /\ MelangeDone
    /\ args.candidate_height_thresh_m = None
    /\ args.candidate_area_thresh_m2 = Some(4)
    /\ args.resolution = Some(1)
    /\ args.dem.values = <<<<480, 480, 4000>>>>
    /\ loc.mask.values = <<<<TRUE, TRUE, TRUE>>>>
    /\ ret.values = <<<<NaN, NaN, 4000>>>>

(***************************************************************************)
(* preprocess.geoid_correct, preprocess.mask_bedrock and                   *)
(* datasets.get_grimp_mask                                                 *)
(***************************************************************************)

\* The truth value, in an if, of `x == None` (eq) or `x != None` (~eq) where
\* x is None or a DataArray.  A DataArray compares element by element: the
\* result is a DataArray of booleans, whose truth value is its one element's,
\* and a ValueError when it has more than one element.
TruthOfNoneTest(x, eq) ==
    IF x = None THEN (IF eq THEN "True" ELSE "False")
    ELSE IF Rows(x[1].values) * Cols(x[1].values) > 1 THEN "ValueError"
    ELSE IF eq THEN "False" ELSE "True"

\* (a) and (b), a being a plain bool: b is evaluated only when a is true
AndTruth(a, b) == IF a THEN b ELSE "False"

SourceBranchMutant(path, raster) ==
    IF path # None THEN "path" ELSE IF raster # None THEN "raster" ELSE "neither"

\* the branch the if/elif chain of geoid_correct and of mask_bedrock takes for
\* a dataset path and an explicit raster, each None or given; "ambiguous" is
\* the ValueError of a truth value
SourceBranch(path, raster) ==
    LET neither == AndTruth(path = None, TruthOfNoneTest(raster, TRUE))
        both == AndTruth(path # None, TruthOfNoneTest(raster, FALSE))
        onlypath == AndTruth(path # None, TruthOfNoneTest(raster, TRUE))
        onlyraster == AndTruth(path = None, TruthOfNoneTest(raster, FALSE))
    IN  IF neither = "ValueError" THEN "ambiguous"
        ELSE IF neither = "True" THEN "neither"
        ELSE IF both = "ValueError" THEN "ambiguous"
        ELSE IF both = "True" THEN "both"
        ELSE IF onlypath = "ValueError" THEN "ambiguous"
        ELSE IF onlypath = "True" THEN "path"
        ELSE IF onlyraster = "ValueError" THEN "ambiguous"
        ELSE IF onlyraster = "True" THEN "raster"
        ELSE "pass"

\* _utils.geospatial_match: the two rasters agree in shape and resolution
geospatial_match(a, b) == Shape(a.values) = Shape(b.values) /\ a.res = b.res

ModuleNamesMutant ==
    {"Optional", "arange", "histogram", "argmax", "DataArray", "get_resolution",
     "geospatial_match", "get_grimp_mask", "get_bedmachine_geoid", "Resampling"}

\* the names preprocess.py imports
ModuleNames ==
    {"Optional", "arange", "histogram", "argmax", "DataArray", "get_resolution",
     "geospatial_match", "get_grimp_mask", "get_bedmachine_geoid"}

\* x.rio.reproject_match(target, ...): x on the grid of target, each pixel
\* taking the value of the pixel of x nearest to it
reproject_match(x, target) ==
    [values |-> [i \in 1..Rows(target.values) |-> [j \in 1..Cols(target.values) |->
        x.values[IF i <= Rows(x.values) THEN i ELSE Rows(x.values)]
                [IF j <= Cols(x.values) THEN j ELSE Cols(x.values)]]],
     res |-> target.res]

\* the outcome of a call: how it ended, the exception, the dataset files it
\* opened, whether it reprojected a raster the caller supplied, what it
\* returned
Outcome(end, error, opened, reprojected, result) ==
    [pc |-> end, error |-> error, opened |-> opened,
     reprojected |-> reprojected, ret |-> result]

Raised(error, opened) == Outcome("error", error, opened, FALSE, None)

\* datasets.get_bedmachine_geoid: the geoid of the file on the grid of target
get_bedmachine_geoid(bm_fpath, target, files) ==
    Outcome("done", "", <<<<"BedMachine", bm_fpath>>>>, FALSE,
            reproject_match(files.geoid, target))

AllZeroMutant(ice_val, ocean_val, land_val) == FALSE

\* (ice_val == 0) and (ocean_val == 0) and (land_val == 0)
AllZero(ice_val, ocean_val, land_val) ==
    ice_val = 0 /\ ocean_val = 0 /\ land_val = 0

\* the mask files of the tiles, GimpIceMask_15m_* or GimpOceanMask_15m_*
TileFiles(tiles, kind) == [k \in 1..Len(tiles) |-> <<kind, tiles[k]>>]

\* datasets.get_grimp_mask: every tile of the directory is opened for its
\* bounds (the directory holds the tiles that intersect the target), then
\* the ice masks and the ocean masks that the values asked for need; a pixel
\* of the mask is the value asked for its class
get_grimp_mask(grimp_mask_dir, target, ice_val, ocean_val, land_val, files) ==
    IF AllZero(ice_val, ocean_val, land_val) THEN Raised("ValueError", <<>>)
    ELSE IF Len(files.tiles) < 1 THEN Raised("ValueError", <<>>)
    ELSE LET ofclass == [ice |-> ice_val, ocean |-> ocean_val, land |-> land_val]
             classes == reproject_match(files.classes, target)
             opened ==
                 TileFiles(files.tiles, "GimpIceMask")
                 \o (IF ice_val # 0 \/ land_val # 0
                     THEN TileFiles(files.tiles, "GimpIceMask") ELSE <<>>)
                 \o (IF ocean_val # 0 \/ land_val # 0
                     THEN TileFiles(files.tiles, "GimpOceanMask") ELSE <<>>)
         IN  Outcome("done", "", opened, FALSE,
                 [values |-> [i \in 1..Rows(target.values) |->
                                 [j \in 1..Cols(target.values) |->
                                     ofclass[classes.values[i][j]] % 256]],
                  res |-> target.res])

\* dem - geoid
Minus(d, g) ==
    [values |-> [i \in 1..Rows(d.values) |-> [j \in 1..Cols(d.values) |->
                    Sub(d.values[i][j], g.values[i][j])]],
     res |-> d.res]

\* dem.where(mask == 1)
WhereOne(d, mask) ==
    [values |-> [i \in 1..Rows(d.values) |-> [j \in 1..Cols(d.values) |->
                    IF mask.values[i][j] = 1 THEN d.values[i][j] ELSE NaN]],
     res |-> d.res]

\* the explicit raster of geoid_correct and mask_bedrock: as it is when it
\* matches the DEM; otherwise the call of reproject_match, whose argument
\* Resampling.bilinear (or .nearest) names what preprocess.py does not import
Aligned(d, raster) ==
    IF geospatial_match(d, raster) THEN Outcome("done", "", <<>>, FALSE, raster)
    ELSE IF "Resampling" \notin ModuleNames THEN Raised("NameError", <<>>)
    ELSE Outcome("done", "", <<>>, TRUE, reproject_match(raster, d))

geoid_correct(d, bedmachine_fpath, geoid, files) ==
    LET branch == SourceBranch(bedmachine_fpath, geoid)
        source == IF branch = "path"
                  THEN get_bedmachine_geoid(bedmachine_fpath[1], d, files)
                  ELSE Aligned(d, geoid[1])
    IN  IF branch \in {"neither", "both", "ambiguous"}
        THEN Raised("ValueError", <<>>)
        ELSE IF source.pc = "error" THEN source
        ELSE Outcome("done", "", source.opened, source.reprojected,
                     Minus(d, source.ret))

mask_bedrock(d, grimp_mask_dir, mask, files) ==
    LET branch == SourceBranch(grimp_mask_dir, mask)
        source == IF branch = "path"
                  THEN get_grimp_mask(grimp_mask_dir[1], d, 1, 1, 0, files)
                  ELSE Aligned(d, mask[1])
    IN  IF branch \in {"neither", "both", "ambiguous"}
        THEN Raised("ValueError", <<>>)
        ELSE IF source.pc = "error" THEN source
        ELSE Outcome("done", "", source.opened, source.reprojected,
                     WhereOne(d, source.ret))

\* bound of the rasters
SrcMaxPix == 2

SrcVals == {0, 1}
SrcClasses == {"ice", "ocean", "land"}
SrcPaths == {None, Some("dataset")}

\* the DEM, the sources, the classification values and the dataset files
InitSources ==
    /\ pc = "call"
    /\ \E f \in {"geoid_correct", "mask_bedrock", "get_grimp_mask"},
          v \in Rasters(SrcMaxPix, {5}), path \in SrcPaths,
          x \in Rasters(SrcMaxPix, SrcVals), xres \in {2, 15},
          given \in BOOLEAN,
          vals \in [{"ice", "ocean", "land"} -> {0, 1}],
          c \in SrcClasses, tiles \in {<<>>, <<"tile">>} :
         /\ f = "get_grimp_mask" => path # None /\ ~given
         /\ ~given => x = <<<<0>>>> /\ xres = 2
         /\ f # "get_grimp_mask" => \A n \in DOMAIN vals : vals[n] = 0
         /\ args = [fn |-> f, dem |-> [values |-> v, res |-> 2],
                    path |-> path,
                    raster |-> IF given THEN Some([values |-> x, res |-> xres])
                               ELSE None,
                    ice_val |-> vals.ice, ocean_val |-> vals.ocean,
                    land_val |-> vals.land,
                    files |-> [geoid |-> [values |-> <<<<1>>>>, res |-> 150],
                               classes |-> [values |-> <<<<c>>>>, res |-> 15],
                               tiles |-> tiles]]
    /\ loc = [fn |-> "caller", opened |-> <<>>, reprojected |-> FALSE, error |-> ""]
    /\ ret = None
    /\ lib = LibDefault

\* the state after a call with the given outcome
Ends(fn, o) ==
    /\ pc' = o.pc
    /\ loc' = [fn |-> fn, opened |-> o.opened, reprojected |-> o.reprojected,
               error |-> o.error]
    /\ ret' = o.ret
    /\ UNCHANGED <<args, lib>>

CallGeoidCorrect ==
    /\ pc = "call"
    /\ loc.fn = "caller"
    /\ args.fn = "geoid_correct"
    /\ Ends("geoid_correct",
            geoid_correct(args.dem, args.path, args.raster, args.files))

CallMaskBedrock ==
    /\ pc = "call"
    /\ loc.fn = "caller"
    /\ args.fn = "mask_bedrock"
    /\ Ends("mask_bedrock",
            mask_bedrock(args.dem, args.path, args.raster, args.files))

CallGetGrimpMask ==
    /\ pc = "call"
    /\ loc.fn = "caller"
    /\ args.fn = "get_grimp_mask"
    /\ Ends("get_grimp_mask",
            get_grimp_mask(args.path[1], args.dem, args.ice_val, args.ocean_val,
                           args.land_val, args.files))

NextSources == CallGeoidCorrect \/ CallMaskBedrock \/ CallGetGrimpMask

SpecSources == InitSources /\ [][NextSources]_vars

(***************************************************************************)
(* Claims about the optional sources                                       *)
(***************************************************************************)

SourcesEnded == pc \in {"done", "error"} /\ loc.fn \in
    {"geoid_correct", "mask_bedrock", "get_grimp_mask"}

\* the call raised before it opened a file, and produced nothing
FailedAtEntry ==
    pc = "error" /\ loc.error = "ValueError" /\ loc.opened = <<>> /\ ret = None

\* C14: geoid_correct and mask_bedrock raise when both the dataset path and
\* the explicit raster are supplied and when neither is; get_grimp_mask raises
\* when ice_val, ocean_val and land_val are all zero; each before it opens a
\* dataset file and without producing a result.
C14_SourcesValidated ==
    SourcesEnded =>
        /\ (/\ loc.fn \in {"geoid_correct", "mask_bedrock"}
            /\ (args.path = None <=> args.raster = None)) => FailedAtEntry
        /\ (/\ loc.fn = "get_grimp_mask"
            /\ args.ice_val = 0 /\ args.ocean_val = 0 /\ args.land_val = 0)
              => FailedAtEntry

\* geoid_correct given both a path and a raster
C14_Witness ==
    /\ pc = "error"
    /\ loc.fn = "geoid_correct"
    /\ args.path # None
    /\ args.raster # None
    /\ loc.error = "ValueError"
    /\ loc.opened = <<>>

\* get_grimp_mask with its default values, all zero
C14_WitnessGrimp ==
    /\ pc = "error"
    /\ loc.fn = "get_grimp_mask"
    /\ args.ice_val = 0 /\ args.ocean_val = 0 /\ args.land_val = 0
    /\ args.files.tiles # <<>>
    /\ loc.opened = <<>>

Allocated(heap, new, values) ==
    [n \in DOMAIN heap \cup {new} |-> IF n = new THEN values ELSE heap[n]]

\* the DataArray around the buffer named n
Deref(heap, n, res) == [values |-> heap[n], res |-> res]

copyMutant(heap, ref, new) == [heap |-> heap, ref |-> ref]

\* ndarray.copy(): a new buffer with the values of the buffer ref
copy(heap, ref, new) ==
    [heap |-> Allocated(heap, new, heap[ref]), ref |-> new]

\* 1 - crev_mask.values
OneMinus(m) ==
    [i \in 1..Rows(m) |-> [j \in 1..Cols(m) |-> Sub(1, m[i][j])]]

\* maximum(dem, dem * 0 + dem_idw).where(crev_mask >= 0)
ClampedWhere(dem, dem_idw, crev_mask, res) ==
    [values |-> [i \in 1..Rows(dem) |-> [j \in 1..Cols(dem) |->
                    IF Ge(crev_mask[i][j], 0)
                    THEN Clamp(dem[i][j], dem_idw[i][j]) ELSE NaN]],
     res |-> res]

\* the stages a caller may call, and the rasters each is passed
FrameFns ==
    {"detrend", "bth_filter", "threshold_depth", "interpolate_surface",
     "calc_depth", "find"}

InputsOf(f, a, b) ==
    IF f = "interpolate_surface" THEN [dem |-> a, crev_mask |-> b]
    ELSE IF f = "calc_depth" THEN [dem |-> a, dem_filled |-> b]
    ELSE IF f = "bth_filter" THEN [dem_detrended |-> a]
    ELSE IF f = "threshold_depth" THEN [bth |-> a]
    ELSE [dem |-> a]

\* bound of the caller's rasters
FrameMaxPix == 2

\* the locals of a call that starts on the given heap
FrameLocals(heap, calls, first) ==
    [fn |-> "caller", calls |-> calls, first |-> first, heap |-> heap,
     dem_idw |-> "", find |-> FindLocals, dem_filled |-> None]

\* the arguments find is called with: the defaults, for a range of 5 m
FrameFindArgs(heap) ==
    [dem |-> Deref(heap, "dem", args.res), resolution |-> Some(args.res),
     range |-> args.range, gauss_mult |-> DefaultGaussMult,
     gauss_cutoff_halves |-> DefaultGaussCutoffHalves,
     depth_thresh_m |-> DefaultDepthThresh,
     retain_intermediates |-> args.retain_intermediates, verbose |-> FALSE]

InitFrame ==
    /\ pc = "call"
    /\ \E f \in FrameFns, v \in Rasters(FrameMaxPix, FillVals),
          d \in {1, 2}, rt \in {PyBool(FALSE), PyBool(TRUE)} :
         \E w \in RastersOfShape(Rows(v), Cols(v), MaskVals) :
            /\ f \notin {"interpolate_surface", "calc_depth"} =>
                  \A p \in Pixels(w) : w[p[1]][p[2]] = 0
            /\ f \notin {"interpolate_surface"} => d = 1
            /\ f # "find" => rt = PyBool(FALSE)
            /\ args = [fn |-> f, res |-> 2,
                       inputs |-> InputsOf(f, [values |-> v, res |-> 2],
                                              [values |-> w, res |-> 2]),
                       search_dist_px |-> d, smoothing_iterations |-> 2,
                       gauss_std |-> 6, range |-> 5,
                       retain_intermediates |-> rt]
            /\ loc = FrameLocals([n \in DOMAIN args.inputs |->
                                     args.inputs[n].values], 1, None)
    /\ ret = None
    /\ lib \in Builds

\* detrend: GaussianBlur(dem.values, ...) returns a new array
FrameDetrend ==
    /\ pc = "call"
    /\ loc.fn = "caller"
    /\ args.fn = "detrend"
    /\ ret' = detrend(Deref(loc.heap, "dem", args.res), args.gauss_std,
                      DefaultGaussCutoffHalves, Some(args.res), lib)
    /\ pc' = "returned"
    /\ UNCHANGED <<args, loc, lib>>

\* bth_filter: morphologyEx(dem_detrended.values, ...) returns a new array
FrameBth ==
    /\ pc = "call"
    /\ loc.fn = "caller"
    /\ args.fn = "bth_filter"
    /\ ret' = bth_filter(Deref(loc.heap, "dem_detrended", args.res),
                         args.range, Some(args.res), lib.nan_minmax)
    /\ pc' = "returned"
    /\ UNCHANGED <<args, loc, lib>>

\* threshold_depth: np.where returns a new array
FrameThreshold ==
    /\ pc = "call"
    /\ loc.fn = "caller"
    /\ args.fn = "threshold_depth"
    /\ ret' = threshold_depth(Deref(loc.heap, "bth", args.res),
                              DefaultDepthThresh)
    /\ pc' = "returned"
    /\ UNCHANGED <<args, loc, lib>>

\* calc_depth: dem_filled - dem is a new DataArray
FrameCalcDepth ==
    /\ pc = "call"
    /\ loc.fn = "caller"
    /\ args.fn = "calc_depth"
    /\ ret' = calc_depth(Deref(loc.heap, "dem", args.res),
                         Deref(loc.heap, "dem_filled", args.res))
    /\ pc' = "returned"
    /\ UNCHANGED <<args, loc, lib>>

\* find, steps 1 to 3: crev_mask is a raster of find's own
FrameFindStages ==
    /\ pc = "call"
    /\ loc.fn = "caller"
    /\ args.fn = "find"
    /\ LET a == FrameFindArgs(loc.heap)
           lo == Step3Threshold(a,
                     Step2Bth(a,
                         Step1Detrend(a, StepResolution(a, loc.find), lib),
                         lib))
       IN  loc' = [loc EXCEPT !.find = lo,
                       !.heap = Allocated(loc.heap, "crev_mask",
                                          lo.crev_mask.values)]
    /\ pc' = "fill"
    /\ UNCHANGED <<args, ret, lib>>

\* interpolate_surface: dem_idw = dem.values.copy()
FrameCopy ==
    /\ <<pc, args.fn>> \in {<<"call", "interpolate_surface">>, <<"fill", "find">>}
    /\ loc.fn = "caller"
    /\ LET c == copy(loc.heap, "dem", "dem_idw")
       IN  loc' = [loc EXCEPT !.heap = c.heap, !.dem_idw = c.ref]
    /\ pc' = "fillnodata"
    /\ UNCHANGED <<args, ret, lib>>

\* interpolate_surface: fillnodata(dem_idw, mask=(1 - crev_mask.values), ...)
\* works in the buffer it is given
FrameFillNoData ==
    /\ pc = "fillnodata"
    /\ loc.fn = "caller"
    /\ LET dist == IF args.fn = "find"
                   THEN search_dist_px(args.range, args.res)
                   ELSE args.search_dist_px
       IN  loc' = [loc EXCEPT !.heap[loc.dem_idw] =
                      fillnodata(loc.heap[loc.dem_idw],
                                 OneMinus(loc.heap["crev_mask"]), dist,
                                 args.smoothing_iterations, lib)]
    /\ pc' = "clamp"
    /\ UNCHANGED <<args, ret, lib>>

\* interpolate_surface: dem * 0 + dem_idw, maximum, where, return
FrameClamp ==
    /\ pc = "clamp"
    /\ loc.fn = "caller"
    /\ LET dem_filled == ClampedWhere(loc.heap["dem"], loc.heap[loc.dem_idw],
                                      loc.heap["crev_mask"], args.res)
       IN  IF args.fn = "find"
           THEN /\ loc' = [loc EXCEPT !.dem_filled = dem_filled]
                /\ pc' = "depth"
                /\ ret' = ret
           ELSE /\ ret' = dem_filled
                /\ pc' = "returned"
                /\ loc' = loc
    /\ UNCHANGED <<args, lib>>

\* find, steps 5 and 6
FrameFindReturn ==
    /\ pc = "depth"
    /\ loc.fn = "caller"
    /\ LET a == FrameFindArgs(loc.heap)
           lo == [fn |-> "find", dem_detrended |-> loc.find.dem_detrended,
                  bth |-> loc.find.bth, crev_mask |-> loc.find.crev_mask,
                  dem_filled |-> loc.dem_filled,
                  crev_depth |-> calc_depth(a.dem, loc.dem_filled)]
       IN  ret' = Step6Return(a, lo)
    /\ pc' = "returned"
    /\ UNCHANGED <<args, loc, lib>>

\* the caller keeps the result and calls again, passing the same rasters as
\* they are now; the buffers of the first call are gone
FrameCallAgain ==
    /\ pc = "returned"
    /\ loc.fn = "caller"
    /\ loc.calls = 1
    /\ loc' = FrameLocals([n \in DOMAIN args.inputs |-> loc.heap[n]], 2, ret)
    /\ ret' = None
    /\ pc' = "call"
    /\ UNCHANGED <<args, lib>>

NextFrame ==
    \/ FrameDetrend
    \/ FrameBth
    \/ FrameThreshold
    \/ FrameCalcDepth
    \/ FrameFindStages
    \/ FrameCopy
    \/ FrameFillNoData
    \/ FrameClamp
    \/ FrameFindReturn
    \/ FrameCallAgain

SpecFrame == InitFrame /\ [][NextFrame]_vars

(***************************************************************************)
(* Claims about the stages and their inputs                                *)
(***************************************************************************)

\* C16: no stage mutates its inputs.  During and after any call of detrend,
\* bth_filter, threshold_depth, interpolate_surface, calc_depth or find the
\* caller's rasters hold the values they held before the call (the hole
\* filling of interpolate_surface works in a buffer of its own), and a second
\* call with the same rasters returns what the first returned.
C16_InputsUntouched ==
    (loc.fn = "caller" /\ "inputs" \in DOMAIN args) =>
        /\ \A n \in DOMAIN args.inputs : loc.heap[n] = args.inputs[n].values
        /\ (pc = "returned" /\ loc.calls = 2) => ret = loc.first

\* the second call of interpolate_surface returned: the pit was filled in
\* the buffer dem_idw, the caller's dem still has it
C16_Witness ==
    /\ pc = "returned"
    /\ loc.fn = "caller"
    /\ loc.calls = 2
    /\ args.fn = "interpolate_surface"
    /\ args.inputs.dem.values = <<<<4, 1>>>>
    /\ args.inputs.crev_mask.values = <<<<0, 1>>>>
    /\ loc.heap["dem_idw"] = <<<<4, 4>>>>
    /\ loc.heap["dem"] = <<<<4, 1>>>>
    /\ ret.values = <<<<4, 4>>>>
    /\ loc.first = ret

====
